---- MODULE Spec2Model ----
(***************************************************************************)
(* claude-notifier: the dispatch pipeline of NotificationManager           *)
(* (src/src/main.rs) over the configuration of src/src/config.rs and the   *)
(* Notifier trait of src/src/notifiers.                                    *)
(*                                                                         *)
(* Strings are TLA+ strings; a character of a string s is SubSeq(s, i, i). *)
(* One step of the model is one whole send_notification call (or, in       *)
(* SpecQuiet, one is_quiet_hours evaluation); the value Local::now()       *)
(* returns is an input of the step that never runs backwards.              *)
(***************************************************************************)
EXTENDS Integers, Sequences, FiniteSets, TLC

VARIABLES
    config,         \* NotificationManager.config (config::Config), immutable
    notifiers,      \* NotificationManager.notifiers: registered name -> notifier kind
    message_cache,  \* NotificationManager.message_cache: message_key -> timestamp
    clock,          \* the last value Local::now().timestamp() returned (epoch seconds)
    utc_offset,     \* the local time zone, seconds east of UTC
    call,           \* the last call: its arguments, its return value, the send_card calls it made
    last_recorded,  \* history: message_key -> the last call that passed both checks (time, sends)
    last_gate,      \* history: message_key -> time of the last call that passed the quiet-hours check
    last_sent,      \* history: (event_type, title, content prefix) -> the last call that passed both checks
    ncalls          \* number of calls made so far

vars == <<config, notifiers, message_cache, clock, utc_offset, call,
          last_recorded, last_gate, last_sent, ncalls>>

----------------------------------------------------------------------------
(* Bounds of the model *)

\* calls made on one manager in Spec
MaxCalls == 2

\* calls made on one manager in SpecDedup
MaxDedupCalls == 3

\* minutes of wall clock SpecQuiet walks through (one day)
MaxMinutes == 1440

\* calls made on one manager in SpecBypass
MaxBypassCalls == 2

(* Program constants *)

\* main.rs:163  now - last_sent < 300
DedupWindow == 300

\* main.rs:172  retain(|_, &mut v| now - v < 600)
PurgeAge == 600

\* main.rs:196  content.chars().take(50)
PreviewLen == 50

----------------------------------------------------------------------------
(* Strings *)

\* Option<T>: None is the empty sequence, Some(x) the sequence of x alone
None == <<>>
Some(x) == <<x>>
IsSome(o) == Len(o) = 1
Unwrap(o) == o[1]

EmptyMap == [k \in {} |-> 0]

Min(a, b) == IF a < b THEN a ELSE b

\* the byte of a one-character string (the characters configuration times are made of)
Ord(c) ==
    CASE c = "0" -> 48 [] c = "1" -> 49 [] c = "2" -> 50 [] c = "3" -> 51
      [] c = "4" -> 52 [] c = "5" -> 53 [] c = "6" -> 54 [] c = "7" -> 55
      [] c = "8" -> 56 [] c = "9" -> 57 [] c = ":" -> 58

Char(s, i) == SubSeq(s, i, i)

\* Rust's Ord for String: bytewise lexicographic, a proper prefix is smaller
RECURSIVE StrCmpFrom(_, _, _)
StrCmpFrom(a, b, i) ==
    IF i > Len(a) /\ i > Len(b) THEN 0
    ELSE IF i > Len(a) THEN -1
    ELSE IF i > Len(b) THEN 1
    ELSE IF Ord(Char(a, i)) < Ord(Char(b, i)) THEN -1
    ELSE IF Ord(Char(a, i)) > Ord(Char(b, i)) THEN 1
    ELSE StrCmpFrom(a, b, i + 1)

StrLt(a, b) == StrCmpFrom(a, b, 1) < 0
StrLe(a, b) == StrCmpFrom(a, b, 1) <= 0
StrGe(a, b) == StrCmpFrom(a, b, 1) >= 0

Digit(d) ==
    CASE d = 0 -> "0" [] d = 1 -> "1" [] d = 2 -> "2" [] d = 3 -> "3" [] d = 4 -> "4"
      [] d = 5 -> "5" [] d = 6 -> "6" [] d = 7 -> "7" [] d = 8 -> "8" [] d = 9 -> "9"

\* two digits, zero padded (chrono's %H and %M)
TwoDigits(n) == Digit(n \div 10) \o Digit(n % 10)

\* Local::now().format("%H:%M") at epoch second t in the zone off seconds east of UTC
FormatHM(t, off) ==
    LET local == (t + off) % 86400
    IN  TwoDigits(local \div 3600) \o ":" \o TwoDigits((local % 3600) \div 60)

\* content.chars().take(n).collect()
TakeChars(s, n) == SubSeq(s, 1, Min(n, Len(s)))

----------------------------------------------------------------------------
(* Configuration (config.rs) *)

\* Config::default().notifications
DefaultNotifications ==
    [build_success  |-> <<"teams", "feishu">>,
     build_failure  |-> <<"teams", "feishu", "wechat">>,
     security_alert |-> <<"teams", "feishu", "wechat">>,
     daily_report   |-> <<"feishu">>]

\* Config::default().quiet_hours
DefaultQuietHours == [enabled |-> TRUE, start |-> "22:00", end |-> "08:00"]

\* Config::default(): no channel configured
DefaultConfig ==
    [channels      |-> [teams |-> None, feishu |-> None, wechat |-> None],
     notifications |-> DefaultNotifications,
     quiet_hours   |-> DefaultQuietHours]

\* the default file with all three channels filled in
AllChannelsConfig ==
    [channels      |->
        [teams  |-> Some([enabled |-> TRUE, webhook |-> "https://teams"]),
         feishu |-> Some([enabled |-> TRUE, webhook |-> "https://feishu",
                          at_all_on_critical |-> TRUE]),
         wechat |-> Some([enabled |-> TRUE, service |-> "ServerChan", key |-> "sct"])],
     notifications |-> DefaultNotifications,
     quiet_hours   |-> DefaultQuietHours]

\* a hand-edited file: teams enabled without a webhook, wechat disabled, feishu
\* without the mention flag, a routing table with an unknown and a repeated name
\* and a route for "test", quiet hours off
EditedConfig ==
    [channels      |->
        [teams  |-> Some([enabled |-> TRUE, webhook |-> ""]),
         feishu |-> Some([enabled |-> TRUE, webhook |-> "https://feishu",
                          at_all_on_critical |-> FALSE]),
         wechat |-> Some([enabled |-> FALSE, service |-> "PushPlus", key |-> "pp"])],
     notifications |->
        [build_failure |-> <<"feishu", "slack", "teams", "feishu">>,
         test          |-> <<"feishu">>],
     quiet_hours   |-> [enabled |-> FALSE, start |-> "22:00", end |-> "08:00"]]

\* what Config::load() may return
Configs == {DefaultConfig, AllChannelsConfig, EditedConfig}

----------------------------------------------------------------------------
(* NotificationManager::new *)

\* FeishuNotifier::new(webhook, _at_all_on_critical): the flag is dropped
FeishuNotifierNew(webhook, at_all_on_critical) ==
    [kind |-> "FeishuNotifier", webhook |-> webhook]

\* TeamsNotifier::new(webhook)
TeamsNotifierNew(webhook) == [kind |-> "TeamsNotifier", webhook |-> webhook]

\* WechatNotifier::new_serverchan(key) / new_pushplus(token)
WechatNotifierNew(service, key) ==
    [kind |-> "WechatNotifier", service |-> service, key |-> key]

\* the registry new() builds: a channel is registered when it is configured,
\* enabled and its webhook (key) is not empty
NewNotifiers(cfg) ==
    LET ch == cfg.channels
        teams  == IF IsSome(ch.teams) /\ Unwrap(ch.teams).enabled
                     /\ Unwrap(ch.teams).webhook # ""
                  THEN {"teams"} ELSE {}
        feishu == IF IsSome(ch.feishu) /\ Unwrap(ch.feishu).enabled
                     /\ Unwrap(ch.feishu).webhook # ""
                  THEN {"feishu"} ELSE {}
        wechat == IF IsSome(ch.wechat) /\ Unwrap(ch.wechat).enabled
                     /\ Unwrap(ch.wechat).key # ""
                  THEN {"wechat"} ELSE {}
    IN  [c \in teams \cup feishu \cup wechat |->
            CASE c = "teams"  -> TeamsNotifierNew(Unwrap(ch.teams).webhook)
              [] c = "feishu" -> FeishuNotifierNew(Unwrap(ch.feishu).webhook,
                                                   Unwrap(ch.feishu).at_all_on_critical)
              [] c = "wechat" -> WechatNotifierNew(Unwrap(ch.wechat).service,
                                                   Unwrap(ch.wechat).key)]

----------------------------------------------------------------------------
(* NotificationManager::is_quiet_hours *)

\* mutant: the end of the window is excluded
is_quiet_hours_ExclusiveEnd(cfg, now) ==
    IF ~cfg.quiet_hours.enabled THEN FALSE
    ELSE IF StrLt(cfg.quiet_hours.start, cfg.quiet_hours.end)
         THEN StrGe(now, cfg.quiet_hours.start) /\ StrLt(now, cfg.quiet_hours.end)
         ELSE StrGe(now, cfg.quiet_hours.start) \/ StrLt(now, cfg.quiet_hours.end)

\* now is Local::now().format("%H:%M"); start and end are compared as strings
is_quiet_hours(cfg, now) ==
    IF ~cfg.quiet_hours.enabled THEN FALSE
    ELSE LET start == cfg.quiet_hours.start
             end   == cfg.quiet_hours.end
         IN  IF StrLt(start, end)
             THEN StrGe(now, start) /\ StrLe(now, end)
             ELSE StrGe(now, start) \/ StrLe(now, end)

----------------------------------------------------------------------------
(* NotificationManager::should_send *)

\* mutant: an entry aged exactly 600 s is kept
Retain_Inclusive(cache, now) ==
    [k \in {x \in DOMAIN cache : now - cache[x] <= PurgeAge} |-> cache[k]]

\* self.message_cache.retain(|_, &mut v| now - v < 600)
Retain(cache, now) ==
    [k \in {x \in DOMAIN cache : now - cache[x] < PurgeAge} |-> cache[k]]

\* mutant: entry(message_key).or_insert(now), which keeps an older timestamp
Insert_KeepOld(cache, message_key, now) ==
    [k \in DOMAIN cache \cup {message_key} |->
        IF k \in DOMAIN cache THEN cache[k] ELSE now]

\* self.message_cache.insert(message_key, now)
Insert(cache, message_key, now) ==
    [k \in DOMAIN cache \cup {message_key} |->
        IF k = message_key THEN now ELSE cache[k]]

\* mutant: the window includes its end
IsDuplicate_Inclusive(cache, message_key, now) ==
    message_key \in DOMAIN cache /\ now - cache[message_key] <= DedupWindow

\* the message is a repeat: its key is cached and was sent less than 300 s ago
IsDuplicate(cache, message_key, now) ==
    message_key \in DOMAIN cache /\ now - cache[message_key] < DedupWindow

\* mutant: a repeat refreshes the stored timestamp
should_send_RefreshOnDuplicate(cache, message_key, now) ==
    IF message_key \in DOMAIN cache /\ now - cache[message_key] < DedupWindow
    THEN [send |-> FALSE, cache |-> [cache EXCEPT ![message_key] = now]]
    ELSE [send |-> TRUE,
          cache |-> [k \in {x \in DOMAIN cache \cup {message_key} :
                               x = message_key \/ now - cache[x] < PurgeAge} |->
                        IF k = message_key THEN now ELSE cache[k]]]

\* should_send(message_key) at time now: the value returned and the cache left
should_send(cache, message_key, now) ==
    IF IsDuplicate(cache, message_key, now)
    THEN [send |-> FALSE, cache |-> cache]
    ELSE [send |-> TRUE, cache |-> Retain(Insert(cache, message_key, now), now)]

----------------------------------------------------------------------------
(* NotificationManager::send_notification *)

\* mutant: the negation of force is lost
QuietGate_ForceInverted(force, quiet, level) == force /\ quiet /\ level # "critical"

\* mutant: the exemption of critical is lost
QuietGate_NoCriticalExemption(force, quiet, level) == ~force /\ quiet

\* the quiet-hours check: !force && self.is_quiet_hours() && level != "critical"
QuietGate(force, quiet, level) == ~force /\ quiet /\ level # "critical"

\* impl Display for Channel
ChannelToString(c) ==
    CASE c = "Teams" -> "teams" [] c = "Feishu" -> "feishu" [] c = "Wechat" -> "wechat"

\* format!("{}:{}:{}", event_type, title, content_preview)
\* mutant: the key holds the whole content
MessageKey_WholeContent(event_type, title, content) ==
    event_type \o ":" \o title \o ":" \o content

MessageKey(event_type, title, content) ==
    event_type \o ":" \o title \o ":" \o TakeChars(content, PreviewLen)

\* mutant: the override list is added to the routed channels
SelectChannels_OverrideAdds(cfg, event_type, override_channels) ==
    LET routed == IF event_type \in DOMAIN cfg.notifications
                  THEN cfg.notifications[event_type] ELSE <<>>
    IN  IF IsSome(override_channels)
        THEN routed \o [i \in 1..Len(Unwrap(override_channels)) |->
                          CASE Unwrap(override_channels)[i] = "Teams"  -> "teams"
                            [] Unwrap(override_channels)[i] = "Feishu" -> "feishu"
                            [] Unwrap(override_channels)[i] = "Wechat" -> "wechat"]
        ELSE routed

\* the channel names the call walks through
SelectChannels(cfg, event_type, override_channels) ==
    IF IsSome(override_channels)
    THEN [i \in 1..Len(Unwrap(override_channels)) |->
            ChannelToString(Unwrap(override_channels)[i])]
    ELSE IF event_type \in DOMAIN cfg.notifications
         THEN cfg.notifications[event_type]
         ELSE <<>>

\* the colour of a level
ColorOf(level) ==
    CASE level = "info"     -> "0078D4"
      [] level = "warning"  -> "FFA500"
      [] level = "critical" -> "DC3545"
      [] level = "success"  -> "28A745"
      [] OTHER              -> "0078D4"

\* the mention-all markup appended for feishu
AtAll == "\n<at user_id='all'></at>"

\* mutant: the mention is appended for every channel
FinalContent_EveryChannel(level, channel, content) ==
    IF level = "critical"
    THEN content \o "\n<at user_id='all'></at>"
    ELSE content

\* the body handed to a channel's send_card
FinalContent(level, channel, content) ==
    IF level = "critical" /\ channel = "feishu"
    THEN content \o AtAll
    ELSE content

\* json!({"success": true, "response": val}) / json!({"success": false, "error": e})
OutcomeOf(ok) ==
    IF ok THEN [success |-> TRUE, response |-> "reply"]
    ELSE [success |-> FALSE, error |-> "Request failed"]

\* the channels of the list that are registered, in the order visited
Attempted(registry, channels) ==
    SelectSeq(channels, LAMBDA c : c \in DOMAIN registry)

\* mutant: the loop returns at the first send_card that fails
RECURSIVE Deliver_StopAtFailure(_, _, _, _, _, _, _, _, _)
Deliver_StopAtFailure(registry, channels, i, title, content, level, transport, results, requests) ==
    IF i > Len(channels) THEN [results |-> results, requests |-> requests]
    ELSE LET channel == channels[i]
         IN  IF channel \in DOMAIN registry
             THEN LET ok  == transport[Len(requests) + 1]
                      req == [channel |-> channel,
                              notifier |-> registry[channel].kind,
                              title |-> title,
                              content |-> FinalContent(level, channel, content),
                              color |-> ColorOf(level),
                              actions |-> <<>>,
                              ok |-> ok]
                      next == [results  |-> (channel :> OutcomeOf(ok)) @@ results,
                               requests |-> Append(requests, req)]
                  IN  IF ok
                      THEN Deliver_StopAtFailure(registry, channels, i + 1, title, content,
                                                 level, transport, next.results,
                                                 next.requests)
                      ELSE next
             ELSE Deliver_StopAtFailure(registry, channels, i + 1, title, content, level,
                                        transport, results, requests)

\* the loop over the channels from position i on: transport[n] tells whether the
\* n-th send_card of the call succeeds
RECURSIVE Deliver(_, _, _, _, _, _, _, _, _)
Deliver(registry, channels, i, title, content, level, transport, results, requests) ==
    IF i > Len(channels) THEN [results |-> results, requests |-> requests]
    ELSE LET channel == channels[i]
         IN  IF channel \in DOMAIN registry
             THEN LET ok  == transport[Len(requests) + 1]
                      req == [channel |-> channel,
                              notifier |-> registry[channel].kind,
                              title |-> title,
                              content |-> FinalContent(level, channel, content),
                              color |-> ColorOf(level),
                              actions |-> <<>>,
                              ok |-> ok]
                  IN  Deliver(registry, channels, i + 1, title, content, level, transport,
                              (channel :> OutcomeOf(ok)) @@ results,
                              Append(requests, req))
             ELSE Deliver(registry, channels, i + 1, title, content, level, transport,
                          results, requests)

----------------------------------------------------------------------------------------------------------------------------------------
(* The environment: callers, clock, transport *)

\* fifty characters
Prefix50 == "Step 12 of 40 failed: linker returned exit code 1;"

ShortMessage ==
    [event_type |-> "build_failure", title |-> "Build #42 failed",
     content |-> "exit code 1"]

\* two messages that differ only after their fiftieth character
LongMessageA ==
    [event_type |-> "build_failure", title |-> "Build #42 failed",
     content |-> Prefix50 \o " see log A"]

LongMessageB ==
    [event_type |-> "build_failure", title |-> "Build #42 failed",
     content |-> Prefix50 \o " see log B"]

\* what Commands::Test sends
TestMessage ==
    [event_type |-> "test", title |-> "Test Notification",
     content |-> "This is a test message"]

\* the (event_type, title, content) triples callers pass
Messages == {ShortMessage, TestMessage}

DedupMessages == {LongMessageA, LongMessageB, TestMessage}

Levels == {"info", "critical"}

\* Option<Vec<Channel>>
Overrides == {None, Some(<<"Wechat", "Teams">>)}

\* two texts with one fingerprint
BypassMessages == {LongMessageA, LongMessageB}

BypassOverrides == {None, Some(<<"Feishu">>), Some(<<"Wechat", "Teams">>)}

\* either side of the 300 s mark
BypassDeltas == {299, 300}

\* SpecDedup routes by event type only
DedupOverrides == {None}

\* seconds between one reading of the clock and the next
Deltas == {0, 300}

DedupDeltas == {299, 300, 301}

\* (epoch second, zone) at which the manager is built: 21:55:00 in UTC and
\* 07:55:00 in UTC+8, five minutes before the default window opens and closes
EveningUTC == [clock |-> 20000 * 86400 + 21 * 3600 + 55 * 60, utc_offset |-> 0]

MorningCST == [clock |-> 20000 * 86400 - 5 * 60, utc_offset |-> 8 * 3600]

Environments == {EveningUTC, MorningCST}

\* the outcomes of the n send_card calls of one send_notification call
Transports(n) == [1..n -> BOOLEAN]

\* all of them succeed, or all of them fail
UniformTransports(n) == {[i \in 1..n |-> b] : b \in BOOLEAN}

\* the number of send_card calls among requests that succeeded
Delivered(requests) == Cardinality({i \in DOMAIN requests : requests[i].ok})

\* what identifies a message: its event type, its title and the first fifty
\* characters of its content
Fingerprint(event_type, title, content) ==
    <<event_type, title,
      SubSeq(content, 1, IF Len(content) < 50 THEN Len(content) ELSE 50)>>

\* Option<V>: what m holds for key k
Lookup(m, k) == IF k \in DOMAIN m THEN Some(m[k]) ELSE None

Put(m, k, v) == [x \in DOMAIN m \cup {k} |-> IF x = k THEN v ELSE m[x]]

----------------------------------------------------------------------------
(* Specification *)

InitIn(cfgs, envs) ==
    /\ config \in cfgs
    /\ notifiers = NewNotifiers(config)
    /\ message_cache = EmptyMap
    /\ \E e \in envs : clock = e.clock /\ utc_offset = e.utc_offset
    /\ call = [op |-> "new"]
    /\ last_recorded = EmptyMap
    /\ last_gate = EmptyMap
    /\ last_sent = EmptyMap
    /\ ncalls = 0

\* one call of send_notification at clock reading now; uniform tells whether the
\* transport is drawn from UniformTransports only
SendNotification(event_type, title, content, level, override_channels, force, now, uniform) ==
    LET quiet       == is_quiet_hours(config, FormatHM(now, utc_offset))
        message_key == MessageKey(event_type, title, content)
        Returned(result, requests) ==
            [op |-> "send_notification", event_type |-> event_type,
             title |-> title, content |-> content, level |-> level,
             override_channels |-> override_channels, force |-> force,
             now |-> now, quiet |-> quiet, message_key |-> message_key,
             cache_before |-> message_cache,
             prev_recorded |-> Lookup(last_recorded, message_key),
             prev_gate |-> Lookup(last_gate, message_key),
             prev_sent |-> Lookup(last_sent, Fingerprint(event_type, title, content)),
             result |-> result, requests |-> requests]
    IN  /\ ncalls' = ncalls + 1
        /\ clock' = now
        /\ UNCHANGED <<config, notifiers, utc_offset>>
        /\ IF QuietGate(force, quiet, level)
           THEN /\ call' = Returned("status" :> "quiet_hours", <<>>)
                /\ UNCHANGED <<message_cache, last_recorded, last_gate, last_sent>>
           ELSE LET ss == should_send(message_cache, message_key, now)
                IN  /\ message_cache' = ss.cache
                    /\ last_gate' = Put(last_gate, message_key, now)
                    /\ IF ~ss.send
                       THEN /\ call' = Returned("status" :> "duplicate", <<>>)
                            /\ UNCHANGED <<last_recorded, last_sent>>
                       ELSE LET channels == SelectChannels(config, event_type,
                                                           override_channels)
                                n == Len(Attempted(notifiers, channels))
                            IN  \E transport \in
                                        IF uniform THEN UniformTransports(n)
                                        ELSE Transports(n) :
                                     LET sent == Deliver(notifiers, channels, 1, title,
                                                         content, level, transport,
                                                         EmptyMap, <<>>)
                                     IN  /\ call' = Returned(sent.results, sent.requests)
                                         /\ last_recorded' =
                                              Put(last_recorded, message_key,
                                                  [at |-> now, attempts |-> n,
                                                   delivered |-> Delivered(sent.requests)])
                                         /\ last_sent' =
                                              Put(last_sent,
                                                  Fingerprint(event_type, title, content),
                                                  [at |-> now, level |-> level])

\* any caller, any time, any transport
Next ==
    /\ ncalls < MaxCalls
    /\ \E m \in Messages, level \in Levels, override_channels \in Overrides,
          force \in BOOLEAN, d \in Deltas :
           SendNotification(m.event_type, m.title, m.content, level,
                            override_channels, force, clock + d, FALSE)

Init == InitIn(Configs, Environments)

Spec == Init /\ [][Next]_vars

\* longer runs on one manager, around the 300 s and 600 s marks
NextDedup ==
    /\ ncalls < MaxDedupCalls
    /\ \E m \in DedupMessages, level \in Levels, override_channels \in DedupOverrides,
          force \in BOOLEAN, d \in DedupDeltas :
           SendNotification(m.event_type, m.title, m.content, level,
                            override_channels, force, clock + d, TRUE)

InitDedup == InitIn({AllChannelsConfig, DefaultConfig}, {EveningUTC})

SpecDedup == InitDedup /\ [][NextDedup]_vars

\* callers of every severity, forced or not, with and without an override,
\* repeating one fingerprint as the default window opens
NextBypass ==
    /\ ncalls < MaxBypassCalls
    /\ \E m \in BypassMessages, level \in Levels, override_channels \in BypassOverrides,
          force \in BOOLEAN, d \in BypassDeltas :
           SendNotification(m.event_type, m.title, m.content, level,
                            override_channels, force, clock + d, TRUE)

InitBypass == InitIn({AllChannelsConfig}, {EveningUTC})

SpecBypass == InitBypass /\ [][NextBypass]_vars

----------------------------------------------------------------------------
(* is_quiet_hours on its own, minute by minute through a day *)

QuietWindows ==
    {[enabled |-> TRUE,  start |-> "22:00", end |-> "08:00"],
     [enabled |-> FALSE, start |-> "22:00", end |-> "08:00"],
     [enabled |-> TRUE,  start |-> "09:00", end |-> "17:30"],
     [enabled |-> TRUE,  start |-> "08:00", end |-> "08:00"],
     [enabled |-> TRUE,  start |-> "00:00", end |-> "23:59"],
     [enabled |-> TRUE,  start |-> "8:00",  end |-> "22:00"]}

QuietConfigs == {[DefaultConfig EXCEPT !.quiet_hours = q] : q \in QuietWindows}

\* a midnight UTC
Midnight == 20000 * 86400

\* midnight in UTC, and 59 seconds later in UTC+8
QuietStarts ==
    {[clock |-> Midnight, utc_offset |-> 0],
     [clock |-> Midnight + 59, utc_offset |-> 8 * 3600]}

InitQuiet == InitIn(QuietConfigs, QuietStarts)

\* one evaluation of is_quiet_hours at clock reading now
CheckQuietHours(now) ==
    /\ clock' = now
    /\ call' = [op |-> "is_quiet_hours", now |-> now,
                result |-> is_quiet_hours(config, FormatHM(now, utc_offset))]
    /\ UNCHANGED <<config, notifiers, message_cache, utc_offset, last_recorded,
                   last_gate, last_sent, ncalls>>

\* a minute or an hour later, within the day
NextQuiet ==
    \E d \in {60, 3600} :
        /\ clock + d < Midnight + MaxMinutes * 60
        /\ CheckQuietHours(clock + d)

SpecQuiet == InitQuiet /\ [][NextQuiet]_vars

----------------------------------------------------------------------------
(* Properties *)

\* the last step was a send_notification call
Sent == call.op = "send_notification"

\* the map is exactly {"status": status}
IsStatus(result, status) == DOMAIN result = {"status"} /\ result["status"] = status

\* the call got past the quiet-hours check
PassedGate == Sent /\ ~IsStatus(call.result, "quiet_hours")

\* the call got past both checks and went on to channel selection
PassedBoth ==
    /\ Sent
    /\ ~IsStatus(call.result, "quiet_hours")
    /\ ~IsStatus(call.result, "duplicate")

\* the channels of the requests the call issued
Contacted == {call.requests[i].channel : i \in DOMAIN call.requests}

\* the names of the channels of an override list
OverrideNames(list) ==
    {CASE list[i] = "Teams" -> "teams" [] list[i] = "Feishu" -> "feishu"
       [] list[i] = "Wechat" -> "wechat" : i \in DOMAIN list}

\* the channels the configuration has configured, enabled and with an address
Usable ==
    {c \in {"teams", "feishu", "wechat"} :
        /\ IsSome(config.channels[c])
        /\ Unwrap(config.channels[c]).enabled
        /\ IF c = "wechat" THEN Unwrap(config.channels[c]).key # ""
                           ELSE Unwrap(config.channels[c]).webhook # ""}

(* C1: a call with force = false and a severity other than "critical", made
   while is_quiet_hours() is true, returns exactly {"status": "quiet_hours"} and
   issues no send_card / HTTP request, whatever the event type, the channel
   override and the registry. *)
C1_QuietHoursSuppress ==
    (Sent /\ ~call.force /\ call.level # "critical" /\ call.quiet)
        => /\ IsStatus(call.result, "quiet_hours")
           /\ call.requests = <<>>

\* C1's case: a suppressed call with an override list on a manager with channels
C1_Witness ==
    /\ Sent /\ ~call.force /\ call.level = "info" /\ call.quiet
    /\ IsSome(call.override_channels)
    /\ DOMAIN notifiers = {"teams", "feishu", "wechat"}
    /\ IsStatus(call.result, "quiet_hours")

(* C2: a call with severity "critical" never returns {"status": "quiet_hours"},
   whatever force, the quiet-hours configuration and the time; nor does a call
   with force = true, whatever its severity. *)
C2_CriticalAndForceBypass ==
    (Sent /\ (call.level = "critical" \/ call.force))
        => ~IsStatus(call.result, "quiet_hours")

\* C2's case: a critical call without force inside the window is delivered
C2_Witness ==
    /\ Sent /\ call.level = "critical" /\ ~call.force /\ call.quiet
    /\ Len(call.requests) > 0
    /\ DOMAIN call.result = Contacted

(* C3 as stated: of two calls with the same fingerprint that both pass the
   quiet-hours check, the second, when issued within 300 seconds of the first,
   returns exactly {"status": "duplicate"} and issues no request; issued more
   than 300 seconds after it, it is not answered "duplicate". *)
C3_Original ==
    (PassedGate /\ IsSome(call.prev_gate))
        => /\ (call.now - Unwrap(call.prev_gate) <= 300)
                => (IsStatus(call.result, "duplicate") /\ call.requests = <<>>)
           /\ (call.now - Unwrap(call.prev_gate) > 300)
                => ~IsStatus(call.result, "duplicate")

(* C3 amended: of two calls with the same fingerprint that both pass the
   quiet-hours check, the first of which recorded the fingerprint (it was not
   itself answered "duplicate") and is the last to have done so: the second,
   issued less than 300 seconds after the first, returns exactly
   {"status": "duplicate"} and issues no request; issued 300 seconds or more
   after it (or with no such first call), it is not answered "duplicate", records
   the fingerprint and goes on to channel delivery. *)
C3_DedupWindow ==
    PassedGate
        => IF /\ IsSome(call.prev_recorded)
              /\ call.now - Unwrap(call.prev_recorded).at < 300
           THEN /\ IsStatus(call.result, "duplicate")
                /\ call.requests = <<>>
           ELSE /\ ~IsStatus(call.result, "duplicate")
                /\ call.message_key \in DOMAIN message_cache
                /\ message_cache[call.message_key] = call.now
                /\ DOMAIN call.result = Contacted

\* C3's case: a call 299 s after the recording call, with a content that
\* differs from the recorded one after its fiftieth character, is a duplicate
C3_Witness ==
    /\ PassedGate
    /\ IsSome(call.prev_recorded)
    /\ call.now - Unwrap(call.prev_recorded).at = 299
    /\ call.content = LongMessageB.content
    /\ call.cache_before[call.message_key] = Unwrap(call.prev_recorded).at
    /\ IsStatus(call.result, "duplicate")

(* C4: right after a should_send call that inserts a fingerprint at time now,
   every entry (key, ts) left in message_cache has now - ts < 600: no entry
   aged 600 seconds or more survives the purge. *)
C4_PurgeOnInsert ==
    PassedBoth
        => \A k \in DOMAIN message_cache : call.now - message_cache[k] < 600

\* C4's case: an insertion of one key purged the entry of another, aged 600 s
C4_Witness ==
    /\ PassedBoth
    /\ \E k \in DOMAIN call.cache_before :
          /\ call.now - call.cache_before[k] = 600
          /\ k \notin DOMAIN message_cache
    /\ DOMAIN message_cache = {call.message_key}

\* a zero-padded "HH:MM" string of a time of day
WellFormedHM(t) ==
    /\ Len(t) = 5
    /\ Char(t, 3) = ":"
    /\ \A i \in {1, 2, 4, 5} : Char(t, i) \in {Digit(d) : d \in 0..9}
    /\ (Ord(Char(t, 1)) - 48) * 10 + (Ord(Char(t, 2)) - 48) < 24
    /\ Ord(Char(t, 4)) - 48 < 6

\* the minute of the day a well-formed "HH:MM" names
MinuteOf(t) ==
    ((Ord(Char(t, 1)) - 48) * 10 + (Ord(Char(t, 2)) - 48)) * 60
        + (Ord(Char(t, 4)) - 48) * 10 + (Ord(Char(t, 5)) - 48)

\* the local minute of the day at the clock reading of the last step
LocalMinute == ((call.now + utc_offset) % 86400) \div 60

(* C5: for every enabled window (start, end) of zero-padded "HH:MM" strings and
   every current time, is_quiet_hours returns true exactly when
   (start < end and start <= now <= end) or (start >= end and (now >= start or
   now <= end)), both bounds included; it returns false when quiet hours are
   disabled. For 22:00-08:00 it is active at 23:00 and 05:00, inactive at 12:00. *)
C5_QuietWindow ==
    (call.op = "is_quiet_hours")
        => LET q == config.quiet_hours
               n == LocalMinute
           IN  /\ ~q.enabled => call.result = FALSE
               /\ (q.enabled /\ WellFormedHM(q.start) /\ WellFormedHM(q.end))
                    => LET b == MinuteOf(q.start)
                           e == MinuteOf(q.end)
                       IN  call.result =
                             (\/ (b < e /\ b <= n /\ n <= e)
                              \/ (b >= e /\ (n >= b \/ n <= e)))
               /\ (q = [enabled |-> TRUE, start |-> "22:00", end |-> "08:00"])
                    => /\ n = 23 * 60 => call.result = TRUE
                       /\ n = 5 * 60 => call.result = TRUE
                       /\ n = 12 * 60 => call.result = FALSE

\* C5's case: the default window is active at its last minute, 08:00
C5_Witness ==
    /\ call.op = "is_quiet_hours"
    /\ config.quiet_hours = [enabled |-> TRUE, start |-> "22:00", end |-> "08:00"]
    /\ LocalMinute = 8 * 60
    /\ call.result = TRUE

(* C6: for a call that is not suppressed and is given an override list, the
   routing table has no effect: the destinations attempted and the keys of the
   outcome map are exactly the override channels present in the registry
   (configured, enabled, with a webhook or key); an override channel that is
   disabled or unconfigured gets no request and no entry, and no routed channel
   outside the override list is contacted. *)
C6_OverrideReplacesRouting ==
    (PassedBoth /\ IsSome(call.override_channels))
        => LET names == OverrideNames(Unwrap(call.override_channels))
           IN  /\ Contacted = names \cap Usable
               /\ DOMAIN call.result = names \cap Usable

\* C6's case: the event is routed to a registered channel, the override names
\* only channels that are disabled or without webhook, and nothing is sent
C6_Witness ==
    /\ PassedBoth
    /\ call.override_channels = Some(<<"Wechat", "Teams">>)
    /\ call.event_type = "build_failure"
    /\ "feishu" \in DOMAIN notifiers
    /\ "teams" \notin DOMAIN notifiers /\ "wechat" \notin DOMAIN notifiers
    /\ call.requests = <<>>
    /\ call.result = EmptyMap

(* C7: the body passed to feishu's send_card is the content with
   "\n<at user_id='all'></at>" appended when the severity is "critical"
   (whatever at_all_on_critical) and the content itself otherwise; the body
   passed to teams and wechat is always the content itself. *)
C7_MentionAll ==
    Sent => \A i \in DOMAIN call.requests :
                LET r == call.requests[i]
                IN  r.content =
                      IF r.channel = "feishu" /\ call.level = "critical"
                      THEN call.content \o "\n<at user_id='all'></at>"
                      ELSE call.content

\* C7's case: a critical call reaches feishu, configured with
\* at_all_on_critical = false, with the token, and teams without it
C7_Witness ==
    /\ Sent /\ call.level = "critical"
    /\ IsSome(config.channels.feishu)
    /\ ~Unwrap(config.channels.feishu).at_all_on_critical
    /\ \E i \in DOMAIN call.requests :
          /\ call.requests[i].channel = "feishu"
          /\ call.requests[i].content = call.content \o "\n<at user_id='all'></at>"

\* the outcome of the last send_card of the call to channel c
LastOutcome(c) ==
    LET last == CHOOSE i \in DOMAIN call.requests :
                    /\ call.requests[i].channel = c
                    /\ \A j \in DOMAIN call.requests :
                          call.requests[j].channel = c => j <= i
    IN  call.requests[last].ok

\* the channel names the call selected: the override list, else the route
Selected ==
    IF IsSome(call.override_channels)
    THEN [i \in DOMAIN Unwrap(call.override_channels) |->
            CHOOSE n \in OverrideNames(<<Unwrap(call.override_channels)[i]>>) : TRUE]
    ELSE IF call.event_type \in DOMAIN config.notifications
         THEN config.notifications[call.event_type]
         ELSE <<>>

(* C8: a call that is not suppressed returns Ok whatever the transport does:
   every selected channel present in the registry is attempted, whether or not
   the channels before it failed, and the outcome map has exactly one entry per
   such channel, with success = true iff its send_card succeeded and an error
   otherwise. With all three channels registered, event "build_failure" and the
   default routing table the keys are exactly teams, feishu, wechat. *)
C8_PartialFailure ==
    PassedBoth
        => /\ [i \in DOMAIN call.requests |-> call.requests[i].channel]
                = SelectSeq(Selected, LAMBDA c : c \in Usable)
           /\ DOMAIN call.result = Contacted
           /\ \A c \in DOMAIN call.result :
                 /\ call.result[c].success = LastOutcome(c)
                 /\ DOMAIN call.result[c] =
                       IF LastOutcome(c) THEN {"success", "response"}
                       ELSE {"success", "error"}
           /\ (/\ DOMAIN notifiers = {"teams", "feishu", "wechat"}
               /\ call.event_type = "build_failure"
               /\ call.override_channels = None
               /\ config.notifications = DefaultNotifications)
                => DOMAIN call.result = {"teams", "feishu", "wechat"}

\* C8's case: the first and the third of three channels fail, the second succeeds
C8_Witness ==
    /\ PassedBoth
    /\ Len(call.requests) = 3
    /\ ~call.requests[1].ok /\ call.requests[2].ok /\ ~call.requests[3].ok
    /\ DOMAIN call.result = {"teams", "feishu", "wechat"}
    /\ ~call.result["teams"].success
    /\ call.result["feishu"].success
    /\ ~call.result["wechat"].success

(* C9: a call that returns {"status": "quiet_hours"} or {"status": "duplicate"}
   leaves message_cache unchanged (nothing inserted, refreshed or purged); so a
   call is answered "duplicate" only on account of a call that passed both
   checks less than 300 seconds before it, never on account of a suppressed
   one. *)
C9_SuppressedLeavesCache ==
    (Sent /\ ~PassedBoth)
        => /\ message_cache = call.cache_before
           /\ IsStatus(call.result, "duplicate")
                => /\ IsSome(call.prev_recorded)
                   /\ call.now - Unwrap(call.prev_recorded).at < 300

\* C9's case: a call answered "duplicate" 299 s after the recording call leaves
\* the recorded time as it was, and leaves in place an entry of another key that
\* has reached the age of 600 s
C9_Witness ==
    /\ Sent /\ IsStatus(call.result, "duplicate")
    /\ message_cache = call.cache_before
    /\ message_cache[call.message_key] = call.now - 299
    /\ \E k \in DOMAIN message_cache : call.now - message_cache[k] >= 600

(* C10 as stated: after a call that passed both checks, a call with the same
   fingerprint within 300 seconds returns {"status": "duplicate"}, even when the
   first call delivered to no destination. *)
C10_Original ==
    (/\ Sent
     /\ IsSome(call.prev_recorded)
     /\ Unwrap(call.prev_recorded).delivered = 0
     /\ call.now - Unwrap(call.prev_recorded).at <= 300)
        => IsStatus(call.result, "duplicate")

(* C10 amended: the fingerprint is recorded before channel selection and
   delivery, whatever their outcome: after a call that passed both checks, a
   call with the same fingerprint that passes the quiet-hours check less than
   300 seconds later returns {"status": "duplicate"}, even when the first call
   delivered to no destination (event type not routed, no selected channel
   registered, or every send_card failed). *)
C10_RecordedBeforeDelivery ==
    /\ PassedBoth
         => /\ call.message_key \in DOMAIN message_cache
            /\ message_cache[call.message_key] = call.now
    /\ (/\ PassedGate
        /\ IsSome(call.prev_recorded)
        /\ Unwrap(call.prev_recorded).delivered = 0
        /\ call.now - Unwrap(call.prev_recorded).at < 300)
         => /\ IsStatus(call.result, "duplicate")
            /\ call.requests = <<>>

\* C10's case: every send_card of the recording call failed, and the call
\* 299 s later is a duplicate
C10_Witness ==
    /\ PassedGate
    /\ IsSome(call.prev_recorded)
    /\ Unwrap(call.prev_recorded).attempts = 3
    /\ Unwrap(call.prev_recorded).delivered = 0
    /\ call.now - Unwrap(call.prev_recorded).at = 299
    /\ IsStatus(call.result, "duplicate")

(* C11: neither severity "critical", nor force, nor a channel override gets a
   call past the duplicate check: a call that is critical and/or forced, with
   or without an override, whose (event_type, title, first 50 characters of
   content) was recorded less than 300 seconds earlier on the same manager
   returns {"status": "duplicate"} and issues no request, whatever the
   severity and the channels of the call that recorded it and whatever the
   content after its fiftieth character. *)
C11_DedupNotBypassed ==
    (/\ Sent
     /\ call.level = "critical" \/ call.force
     /\ IsSome(call.prev_sent)
     /\ call.now - Unwrap(call.prev_sent).at < 300)
        => /\ IsStatus(call.result, "duplicate")
           /\ call.requests = <<>>

\* C11's case: inside quiet hours, a forced critical call with an override to
\* feishu alone comes 299 s after an info call of the same fingerprint that
\* was routed to three channels, and is answered duplicate
C11_Witness ==
    /\ Sent /\ call.quiet
    /\ call.level = "critical" /\ call.force
    /\ call.override_channels = Some(<<"Feishu">>)
    /\ IsSome(call.prev_sent)
    /\ Unwrap(call.prev_sent).level = "info"
    /\ call.now - Unwrap(call.prev_sent).at = 299
    /\ IsSome(call.prev_recorded)
    /\ Unwrap(call.prev_recorded).attempts = 3
    /\ IsStatus(call.result, "duplicate")
    /\ call.requests = <<>>

====
